---- MODULE Spec2Model ----
(***************************************************************************)
(* A model of commit-sense's base-commit resolver                          *)
(* (src/src/git.rs, find_base_commit_oid) and of the git commands it       *)
(* runs.  Strings are sequences of tokens (atomic substrings).  A commit   *)
(* identifier is the position of the commit in the history reachable from  *)
(* HEAD, parents before children (Len(commits) = HEAD).                    *)
(***************************************************************************)
EXTENDS Integers, Sequences, FiniteSets, TLC

\* ------------------------------------------------------------------ bounds
MaxCommits == 2
MaxTags == 2
MaxTime == 2
MaxRoots == 2
MaxFile == 4
MaxWrites == 1
MaxNum == 1
MaxLines == 3
MaxSections == 2
MaxText == 3

\* ------------------------------------------------------------- primitives
None == [some |-> FALSE, val |-> <<>>]
Some(x) == [some |-> TRUE, val |-> x]

Range(s) == {s[i] : i \in 1..Len(s)}

SubSeqFrom(s, i) == SubSeq(s, i, Len(s))

\* All orderings of a finite set, as sequences without repetition.
Perms(S) == {p \in [1..Cardinality(S) -> S] : \A i, j \in 1..Cardinality(S) : p[i] = p[j] => i = j}

\* ------------------------------------------------------------ token model
\* Tag names of the bounded universe.
V100 == <<"v", "1", ".", "0", ".", "0">>
N100 == <<"1", ".", "0", ".", "0">>
V090 == <<"v", "0", ".", "9", ".", "0">>
\* A version string the suggestion client returns.
N101 == <<"1", ".", "0", ".", "1">>
V200rc1 == <<"v", "2", ".", "0", ".", "0", "-", "rc", ".", "1">>
V200 == <<"v", "2", ".", "0", ".", "0">>
Latest == <<"latest">>
\* Names close to a version that Version::parse rejects: `vv1.0.0`, `1.0`.
VV100 == <<"v", "v", "1", ".", "0", ".", "0">>
Short10 == <<"1", ".", "0">>
\* A tag name holding a byte sequence that is not UTF-8 (git accepts it).
BadUtf8 == <<"a", "\\xFF">>

IsUtf8(s) == "\\xFF" \notin Range(s)

\* Commit messages: a message is a sequence of lines, a line a sequence of tokens.
MsgPlain == << <<"fix: ", "x">> >>
MsgLower == << <<"release: ", "x">> >>
MsgUpper == << <<"Release: ", "x">> >>
MsgMid == << <<"fix: ", "release: ", "x">> >>
MsgBody == << <<"feat: ", "x">>, <<"release: ", "x">> >>
\* A message with a blank line and, in its body, a line that reads `<EOM>`.
MsgMarker == << <<"feat: ", "x">>, <<>>, <<"<EOM>">>, <<"rest">> >>
\* The message of `git commit --allow-empty-message`.
MsgEmpty == <<>>

\* ------------------------------------------------- glob::Pattern (library)
\* GlobPattern::new: an unclosed character class is a PatternError.
GlobValid(pat) == "[" \notin Range(pat)

\* Pattern::matches: the whole name must match; `*` matches any run of characters.
RECURSIVE GlobMatches(_, _)
GlobMatches(pat, name) ==
  IF pat = <<>> THEN name = <<>>
  ELSE IF Head(pat) = "*"
       THEN GlobMatches(Tail(pat), name)
            \/ (name # <<>> /\ GlobMatches(pat, Tail(name)))
       ELSE name # <<>> /\ Head(name) = Head(pat) /\ GlobMatches(Tail(pat), Tail(name))

\* -------------------------------------------------- regex::Regex (library)
\* Regex::new: an unclosed group is a regex::Error.
RegexValid(re) == "(" \notin Range(re)

RegexAnchoredStart(re) == re # <<>> /\ re[1] = "^"
RegexAnchoredEnd(re) == re # <<>> /\ re[Len(re)] = "$"
RegexBody(re) ==
  SubSeq(re, IF RegexAnchoredStart(re) THEN 2 ELSE 1,
             IF RegexAnchoredEnd(re) THEN Len(re) - 1 ELSE Len(re))

\* Regex::is_match: a search, the literal body may match anywhere in the name
\* unless `^` / `$` pin it to the start / end.
RegexIsMatch(re, name) ==
  LET body == RegexBody(re) IN
  \E i \in 1..(Len(name) + 1) :
     /\ i + Len(body) - 1 <= Len(name)
     /\ SubSeq(name, i, i + Len(body) - 1) = body
     /\ RegexAnchoredStart(re) => i = 1
     /\ RegexAnchoredEnd(re) => i + Len(body) - 1 = Len(name)

\* ----------------------------------------------- semver::Version (library)
NumVal == ("0" :> 0) @@ ("1" :> 1) @@ ("2" :> 2) @@ ("9" :> 9)
IsNum(tok) == tok \in DOMAIN NumVal
\* ASCII order of the alphanumeric pre-release identifiers of the universe.
AlphaRank == ("alpha" :> 1) @@ ("rc" :> 2)
IsAlpha(tok) == tok \in DOMAIN AlphaRank

\* Dot-separated pre-release identifiers: ident ("." ident)*.
RECURSIVE IsPreRelease(_)
IsPreRelease(s) ==
  /\ s # <<>>
  /\ IsNum(s[1]) \/ IsAlpha(s[1])
  /\ \/ Len(s) = 1
     \/ Len(s) >= 3 /\ s[2] = "." /\ IsPreRelease(SubSeqFrom(s, 3))

PreIdents(s) == [i \in 1..((Len(s) + 1) \div 2) |-> s[2 * i - 1]]

NoVersion == [ok |-> FALSE, major |-> 0, minor |-> 0, patch |-> 0, pre |-> <<>>]

\* Version::parse: MAJOR.MINOR.PATCH, then an optional -PRERELEASE.
VersionParse(s) ==
  IF /\ Len(s) >= 5
     /\ IsNum(s[1]) /\ s[2] = "." /\ IsNum(s[3]) /\ s[4] = "." /\ IsNum(s[5])
     /\ \/ Len(s) = 5
        \/ Len(s) >= 7 /\ s[6] = "-" /\ IsPreRelease(SubSeqFrom(s, 7))
  THEN [ok |-> TRUE, major |-> NumVal[s[1]], minor |-> NumVal[s[3]], patch |-> NumVal[s[5]],
        pre |-> IF Len(s) = 5 THEN <<>> ELSE PreIdents(SubSeqFrom(s, 7))]
  ELSE NoVersion

\* Ordering of two pre-release identifiers: numeric below alphanumeric.
IdentLess(a, b) ==
  IF IsNum(a) /\ IsNum(b) THEN NumVal[a] < NumVal[b]
  ELSE IF IsNum(a) THEN TRUE
  ELSE IF IsNum(b) THEN FALSE
  ELSE AlphaRank[a] < AlphaRank[b]

\* Prerelease::cmp: no pre-release ranks above any pre-release; otherwise
\* identifier by identifier, a longer list above its own prefix.
RECURSIVE PreLess(_, _)
PreLess(p, q) ==
  IF p = <<>> THEN FALSE
  ELSE IF q = <<>> THEN TRUE
  ELSE IF Head(p) # Head(q) THEN IdentLess(Head(p), Head(q))
  ELSE IF Tail(p) = <<>> THEN Tail(q) # <<>>
  ELSE IF Tail(q) = <<>> THEN FALSE
  ELSE PreLess(Tail(p), Tail(q))

\* Version::cmp (a > b).
VersionGreater(a, b) ==
  \/ a.major > b.major
  \/ a.major = b.major /\ a.minor > b.minor
  \/ a.major = b.major /\ a.minor = b.minor /\ a.patch > b.patch
  \/ a.major = b.major /\ a.minor = b.minor /\ a.patch = b.patch /\ PreLess(b.pre, a.pre)

\* str::strip_prefix('v').unwrap_or(tag_name): at most one leading `v` is removed.
\* (Fault variant: every leading `v` is removed.)
RECURSIVE TrimStartV(_)
TrimStartV(name) == IF name # <<>> /\ name[1] = "v" THEN TrimStartV(Tail(name)) ELSE name
StripPrefixV(name) == IF name # <<>> /\ name[1] = "v" THEN Tail(name) ELSE name

\* ------------------------------------------------------------------ state
VARIABLES
  commits,           \* the history reachable from HEAD: commits[i] = [msg, time], HEAD last
  parents,           \* parents[i]: the commits that commit i has as parents
  tags,              \* the repository's tags: tag name -> commit it points to
  base_ref_opt,      \* argument: Option<&str>, the explicit base reference
  tag_pattern_opt,   \* argument: Option<&str>, the glob pattern
  tag_regex_opt,     \* argument: Option<&str>, the regular expression
  pc,                \* position in find_base_commit_oid
  all_tags,          \* local: Vec<String>, the parsed tag listing
  potential_tags,    \* local: Vec<(i64, String)>, the glob/regex candidates
  latest_semver_tag, \* local: Option<(Version, String, i64)>
  result,            \* the value find_base_commit_oid returns
  log,               \* the strategies run so far, each with its outcome
  argv,              \* the command line: base_ref, tag_pattern, tag_regex, write, nightly
  run_pc,            \* position in run_commitsense ("idle": not running)
  current_version_str, \* local of run_commitsense: the version read from the project file
  new_commits,       \* the value get_commits_since_oid returns
  ai_suggestion,     \* the value get_version_and_changelog returns
  version_file,      \* the version in Cargo.toml / package.json
  project,           \* a Project: its type, its manifest's text, the last version read
  changelog,         \* the content of CHANGELOG.md, or NoFile
  written,           \* the files written so far
  output,            \* what run_commitsense printed, and how it ended
  calc,              \* a call of calculate_expected_version: arguments and return value
  formatted          \* a call of format_changelog_section: arguments and return value

vars == <<commits, parents, tags, base_ref_opt, tag_pattern_opt, tag_regex_opt, pc,
          all_tags, potential_tags, latest_semver_tag, result, log,
          argv, run_pc, current_version_str, new_commits, ai_suggestion,
          version_file, project, changelog, written, output, calc, formatted>>

repo == <<commits, parents, tags>>
args == <<base_ref_opt, tag_pattern_opt, tag_regex_opt>>
app == <<argv, run_pc, current_version_str, new_commits, ai_suggestion>>
disk == <<version_file, project, changelog, written>>
calls == <<calc, formatted>>

Running == [status |-> "running", oid |-> 0, err |-> "", tag |-> <<>>]
Ok(oid, tag) == [status |-> "ok", oid |-> oid, err |-> "", tag |-> tag]
Err(kind) == [status |-> "err", oid |-> 0, err |-> kind, tag |-> <<>>]

Entry(strategy, outcome, skipped) == [strategy |-> strategy, outcome |-> outcome, skipped |-> skipped]

\* --------------------------------------------------- the git command line
HeadRef == <<"HEAD">>
MissingRef == <<"nonexistent">>

\* What a reference names in the repository.
RefExists(ref) == (ref = HeadRef /\ Len(commits) > 0) \/ ref \in DOMAIN tags
RefTarget(ref) == IF ref = HeadRef THEN Len(commits) ELSE tags[ref]

\* `git log -1 --format=%ct <ref>`: the committer time of the commit a tag points to.
CommitTimeOf(ref) == commits[RefTarget(ref)].time

\* `-i`: letters compare without case.
ToLower(tok) ==
  CASE tok = "Release: " -> "release: "
    [] tok = "RELEASE: " -> "release: "
    [] OTHER -> tok

\* `--grep=^release: -i -E`: git matches the pattern against each line of the message.
GrepLine(line) == line # <<>> /\ ToLower(line[1]) = "release: "
GrepMatches(msg) == \E l \in 1..Len(msg) : GrepLine(msg[l])

\* `git log --grep=... -n 1 --format=%H HEAD`: the newest matching commit, 0 for no output.
\* (Fault variant: the oldest matching commit.)
ReleaseCommitOldest ==
  LET hits == {i \in 1..Len(commits) : GrepMatches(commits[i].msg)} IN
  IF hits = {} THEN 0 ELSE CHOOSE i \in hits : \A j \in hits : i <= j
ReleaseCommit ==
  LET hits == {i \in 1..Len(commits) : GrepMatches(commits[i].msg)} IN
  IF hits = {} THEN 0 ELSE CHOOSE i \in hits : \A j \in hits : j <= i

\* `git rev-list --max-parents=0 HEAD`: the commits without parents, in the
\* order of the walk from HEAD: latest commit time first, and for roots of the
\* same time (all of them parents of one merge) in the order of the parents.
RootCommits ==
  LET roots == {i \in 1..Len(commits) : parents[i] = {}}
      before(i, j) == \/ commits[i].time > commits[j].time
                      \/ commits[i].time = commits[j].time /\ i < j
  IN CHOOSE p \in Perms(roots) : \A a, b \in 1..Len(p) : a < b => before(p[a], p[b])

\* ----------------------------------------------------------- the resolver
\* get_commit_oid: `git rev-parse <ref>@{}`.  The command fails for a reference
\* the repository does not have; it may also fail for one it has (git missing,
\* a git that rejects the `@{}` suffix), which `cmd_ok` decides.
GetCommitOid(git_ref, cmd_ok) ==
  IF cmd_ok /\ RefExists(git_ref)
  THEN [ok |-> TRUE, oid |-> RefTarget(git_ref)]
  ELSE [ok |-> FALSE, oid |-> 0]

\* `if let Some(base_ref) = base_ref_opt`: strategy 1 runs whenever a reference is given.
\* (Fault variant: a tag pattern takes precedence over the explicit reference.)
UseExplicitUnlessPattern == base_ref_opt.some /\ ~(tag_pattern_opt.some \/ tag_regex_opt.some)
UseExplicit == base_ref_opt.some

\* `return get_commit_oid(..)`: strategy 1 ends the call, resolved or not.
\* (Fault variant: an unresolved reference falls back to discovery.)
AfterExplicitFallThrough(resolved) == IF resolved THEN "done" ELSE "release"
AfterExplicit(resolved) == "done"

\* The flow of control between the strategies when none returns.
\* (Fault variants: a strategy of the chain is skipped.)
AfterListing == "match"
AfterMatchSkipRelease == "semver"
AfterMatch == "release"
AfterReleaseSkipSemver == "initial"
AfterRelease == "semver"
AfterSemver == "initial"

\* Strategy 1: the explicit base reference; its result is returned whatever it is.
ExplicitRef ==
  /\ pc = "start"
  /\ UseExplicit
  /\ \E cmd_ok \in BOOLEAN :
       LET r == GetCommitOid(base_ref_opt.val, cmd_ok) IN
       /\ result' = IF r.ok THEN Ok(r.oid, <<>>) ELSE Err("GitCommand")
       /\ log' = Append(log, Entry("explicit", IF r.ok THEN "ok" ELSE "error", {}))
       /\ pc' = AfterExplicit(r.ok)
  /\ UNCHANGED <<repo, args, all_tags, potential_tags, latest_semver_tag>>
  /\ UNCHANGED <<app, disk, output, calls>>

\* parse_output_lines: the listing must be UTF-8.
ParseOutputLinesOk(names) == \A n \in names : IsUtf8(n)

\* `git tag --list`, then parse_output_lines(output)?.
ListTags ==
  /\ pc = "start"
  /\ ~UseExplicit
  /\ \/ \* the command fails: proceed without tags
        /\ all_tags' = <<>>
        /\ pc' = AfterListing
        /\ result' = result
        /\ log' = Append(log, Entry("list", "failed", {}))
     \/ \* the command succeeds and its output parses
        /\ ParseOutputLinesOk(DOMAIN tags)
        /\ \E order \in Perms(DOMAIN tags) : all_tags' = order
        /\ pc' = AfterListing
        /\ result' = result
        /\ log' = Append(log, Entry("list", "ok", {}))
     \/ \* the command succeeds and its output is not UTF-8: `?` returns the error
        /\ ~ParseOutputLinesOk(DOMAIN tags)
        /\ all_tags' = all_tags
        /\ pc' = "done"
        /\ result' = Err("GitCommand")
        /\ log' = Append(log, Entry("list", "error", {}))
  /\ UNCHANGED <<repo, args, potential_tags, latest_semver_tag>>
  /\ UNCHANGED <<app, disk, output, calls>>

\* Strategies 2 and 3: which filter applies, and what it keeps.
PatternMatch == tag_pattern_opt.some \/ tag_regex_opt.some
\* (Fault variant: the pattern is not compiled before it is used.)
PatternValidAlways == TRUE
PatternValid ==
  IF tag_pattern_opt.some THEN GlobValid(tag_pattern_opt.val)
  ELSE tag_regex_opt.some => RegexValid(tag_regex_opt.val)
\* (Fault variant: the regular expression has to match the whole name.)
TagMatchesWholeName(tag_name) ==
  IF tag_pattern_opt.some THEN GlobMatches(tag_pattern_opt.val, tag_name)
  ELSE tag_regex_opt.some /\ RegexBody(tag_regex_opt.val) = tag_name
TagMatches(tag_name) ==
  IF tag_pattern_opt.some THEN GlobMatches(tag_pattern_opt.val, tag_name)
  ELSE tag_regex_opt.some /\ RegexIsMatch(tag_regex_opt.val, tag_name)

\* The candidates pushed by the loop: matching tags whose time lookup succeeded,
\* in listing order.
\* (Fault variant: one failed time lookup discards every candidate.)
CandidatesAbortOnFailure(failed) ==
  LET keep(t) == TagMatches(t) /\ failed = {}
      kept == SelectSeq(all_tags, keep)
  IN [i \in 1..Len(kept) |-> [time |-> CommitTimeOf(kept[i]), name |-> kept[i]]]
Candidates(failed) ==
  LET keep(t) == TagMatches(t) /\ t \notin failed
      kept == SelectSeq(all_tags, keep)
  IN [i \in 1..Len(kept) |-> [time |-> CommitTimeOf(kept[i]), name |-> kept[i]]]

\* sort_unstable_by_key(|k| k.0): some ordering by time; the order of equal
\* keys is not specified.
\* (Fault variant: newest first, so that `last` is the oldest entry.)
SortedByTimeDescending(s) == \A i \in 1..(Len(s) - 1) : s[i].time >= s[i + 1].time
SortedByTime(s) == \A i \in 1..(Len(s) - 1) : s[i].time <= s[i + 1].time
SortUnstableByKey(s) ==
  {t \in {[i \in 1..Len(s) |-> s[p[i]]] : p \in Perms(1..Len(s))} : SortedByTime(t)}

\* `return get_commit_oid(project_path, latest_tag_name)`: the call is over
\* whether the winner resolves or not.
\* (Fault variant: an unresolved winner lets the next strategy run.)
AfterResolveFallThrough(r, next) == IF r.ok THEN "done" ELSE next
AfterResolve(r, next) == "done"

MatchTags ==
  /\ pc = "match"
  /\ IF ~PatternValid
     THEN \* GlobPattern::new(..)? / Regex::new(..)?
          /\ result' = Err(IF tag_pattern_opt.some THEN "Glob" ELSE "Regex")
          /\ pc' = "done"
          /\ potential_tags' = potential_tags
          /\ log' = Append(log, Entry("match", "error", {}))
     ELSE \E failed \in SUBSET {t \in Range(all_tags) : TagMatches(t)} :
          LET pushed == Candidates(failed) IN
          IF PatternMatch /\ pushed # <<>>
          THEN \E sorted \in SortUnstableByKey(pushed), cmd_ok \in BOOLEAN :
               LET latest_tag_name == sorted[Len(sorted)].name
                   r == GetCommitOid(latest_tag_name, cmd_ok)
               IN /\ potential_tags' = sorted
                  /\ result' = IF r.ok THEN Ok(r.oid, latest_tag_name) ELSE Err("GitCommand")
                  /\ pc' = AfterResolve(r, AfterMatch)
                  /\ log' = Append(log, Entry("match", IF r.ok THEN "ok" ELSE "error", failed))
          ELSE /\ potential_tags' = pushed
               /\ result' = result
               /\ pc' = AfterMatch
               /\ log' = Append(log, Entry("match", IF PatternMatch THEN "none" ELSE "skipped", failed))
  /\ UNCHANGED <<repo, args, all_tags, latest_semver_tag>>
  /\ UNCHANGED <<app, disk, output, calls>>

\* Strategy 4: the newest commit `git log --grep` reports.
ReleaseSearch ==
  /\ pc = "release"
  /\ \/ \* the command fails (always so without a HEAD commit): warn and continue
        /\ pc' = AfterRelease
        /\ result' = result
        /\ log' = Append(log, Entry("release", "failed", {}))
     \/ /\ Len(commits) > 0
        /\ IF ReleaseCommit # 0
           THEN /\ result' = Ok(ReleaseCommit, <<>>)
                /\ pc' = "done"
                /\ log' = Append(log, Entry("release", "ok", {}))
           ELSE /\ result' = result
                /\ pc' = AfterRelease
                /\ log' = Append(log, Entry("release", "none", {}))
  /\ UNCHANGED <<repo, args, all_tags, potential_tags, latest_semver_tag>>
  /\ UNCHANGED <<app, disk, output, calls>>

\* Strategy 5: `version > *latest_v || (version == *latest_v && time > latest_time)`.
\* (Fault variant: the tag with the latest commit time wins, whatever its version.)
IsNewerByTime(version, time, latest) ==
  IF latest.some THEN time > latest.val.time ELSE TRUE
IsNewer(version, time, latest) ==
  IF latest.some
  THEN \/ VersionGreater(version, latest.val.version)
       \/ version = latest.val.version /\ time > latest.val.time
  ELSE TRUE

\* The loop over all_tags: tags that do not parse, and tags whose time lookup
\* failed, leave latest_semver_tag as it is.
RECURSIVE SemverScan(_, _, _)
SemverScan(rest, failed, latest) ==
  IF rest = <<>> THEN latest
  ELSE LET tag_name == Head(rest)
           version == VersionParse(StripPrefixV(tag_name))
       IN IF version.ok /\ tag_name \notin failed
          THEN LET time == CommitTimeOf(tag_name) IN
               SemverScan(Tail(rest), failed,
                          IF IsNewer(version, time, latest)
                          THEN Some([version |-> version, name |-> tag_name, time |-> time])
                          ELSE latest)
          ELSE SemverScan(Tail(rest), failed, latest)

SemverTags ==
  /\ pc = "semver"
  /\ \E failed \in SUBSET {t \in Range(all_tags) : VersionParse(StripPrefixV(t)).ok} :
       LET latest == SemverScan(all_tags, failed, None) IN
       /\ latest_semver_tag' = latest
       /\ IF latest.some
          THEN \E cmd_ok \in BOOLEAN :
               LET r == GetCommitOid(latest.val.name, cmd_ok) IN
               /\ result' = IF r.ok THEN Ok(r.oid, latest.val.name) ELSE Err("GitCommand")
               /\ pc' = AfterResolve(r, AfterSemver)
               /\ log' = Append(log, Entry("semver", IF r.ok THEN "ok" ELSE "error", failed))
          ELSE /\ result' = result
               /\ pc' = AfterSemver
               /\ log' = Append(log, Entry("semver", "none", failed))
  /\ UNCHANGED <<repo, args, all_tags, potential_tags>>
  /\ UNCHANGED <<app, disk, output, calls>>

\* `oids.first()`.
\* (Fault variant: the last line of the output.)
LastOid(oids) == oids[Len(oids)]
FirstOid(oids) == oids[1]

\* Strategy 6: `git rev-list --max-parents=0 HEAD`? and the first line of its output.
InitialCommit ==
  /\ pc = "initial"
  /\ \/ \* the command fails (always so without a HEAD commit): `?` returns its error
        /\ result' = Err("GitCommand")
        /\ log' = Append(log, Entry("initial", "error", {}))
     \/ /\ Len(commits) > 0
        /\ IF RootCommits # <<>>
           THEN /\ result' = Ok(FirstOid(RootCommits), <<>>)
                /\ log' = Append(log, Entry("initial", "ok", {}))
           ELSE /\ result' = Err("GitCommand: no initial commit")
                /\ log' = Append(log, Entry("initial", "error", {}))
  /\ pc' = "done"
  /\ UNCHANGED <<repo, args, all_tags, potential_tags, latest_semver_tag>>
  /\ UNCHANGED <<app, disk, output, calls>>

\* ------------------------------------------------- get_commits_since_oid
\* Result<Vec<String>>, with the HEAD identifier the call resolved (0: none)
\* and whether it ran `git log`.
NotCalled == [status |-> "none", msgs |-> <<>>, head_oid |-> 0, log_ran |-> FALSE]
CommitsOk(msgs, head_oid, log_ran) ==
  [status |-> "ok", msgs |-> msgs, head_oid |-> head_oid, log_ran |-> log_ran]
CommitsErr(head_oid, log_ran) ==
  [status |-> "err", msgs |-> <<>>, head_oid |-> head_oid, log_ran |-> log_ran]

\* The commits reachable from a commit, itself included.
RECURSIVE Ancestors(_)
Ancestors(i) == {i} \cup UNION {Ancestors(p) : p \in parents[i]}

\* `git log <base>..HEAD --reverse`: the commits reachable from HEAD and not
\* from the base, oldest first (by position: parents come before children).
RevList(base_oid) ==
  LET range == Ancestors(Len(commits)) \ Ancestors(base_oid)
      inRange(i) == i \in range
  IN SelectSeq([i \in 1..Len(commits) |-> i], inRange)

\* `--format=%B%n<EOM>`: the lines of the raw message (which ends with a
\* newline), the empty line `%n` closes, the marker line.
EOM == <<"<EOM>">>
FormatEntry(msg) == msg \o << <<>>, EOM >>

RECURSIVE LogOutput(_)
LogOutput(oids) ==
  IF oids = <<>> THEN <<>>
  ELSE FormatEntry(commits[Head(oids)].msg) \o LogOutput(Tail(oids))

\* split("\n<EOM>\n"): a marker line ends a block when the block before it is
\* not empty (the newline before the marker belongs to the separator); the
\* text after the last separator is a block too.
RECURSIVE SplitEOM(_, _)
SplitEOM(lines, block) ==
  IF lines = <<>> THEN <<block>>
  ELSE IF Head(lines) = EOM /\ block # <<>>
       THEN <<block>> \o SplitEOM(Tail(lines), <<>>)
       ELSE SplitEOM(Tail(lines), Append(block, Head(lines)))

\* str::trim on a block: empty lines at both ends go.
RECURSIVE TrimStart(_)
TrimStart(block) ==
  IF block # <<>> /\ Head(block) = <<>> THEN TrimStart(Tail(block)) ELSE block
RECURSIVE TrimEnd(_)
TrimEnd(block) ==
  IF block # <<>> /\ block[Len(block)] = <<>>
  THEN TrimEnd(SubSeq(block, 1, Len(block) - 1)) ELSE block
Trim(block) == TrimEnd(TrimStart(block))

\* .map(|s| s.trim()).filter(|s| !s.is_empty()).
ParseLogOutput(lines) ==
  LET blocks == SplitEOM(lines, <<>>)
      trimmed == [i \in 1..Len(blocks) |-> Trim(blocks[i])]
      nonEmpty(b) == b # <<>>
  IN SelectSeq(trimmed, nonEmpty)

\* `if head_oid == base_oid`: nothing is listed when the base is HEAD.
\* (Fault variant: the comparison is never true.)
SameAsHeadNever(head_oid, base_oid) == FALSE
SameAsHead(head_oid, base_oid) == head_oid = base_oid

\* get_commits_since_oid(project_path, base_oid); `head_ok` and `log_ok` say
\* whether `git rev-parse HEAD@{}` and `git log` succeed.
CommitsSinceOid(base_oid, head_ok, log_ok) ==
  LET head == GetCommitOid(HeadRef, head_ok) IN
  IF ~head.ok THEN CommitsErr(0, FALSE)
  ELSE IF SameAsHead(head.oid, base_oid) THEN CommitsOk(<<>>, head.oid, FALSE)
  ELSE IF ~log_ok THEN CommitsErr(head.oid, TRUE)
  ELSE CommitsOk(ParseLogOutput(LogOutput(RevList(base_oid))), head.oid, TRUE)

\* ------------------------------------------------------------ changelog.rs
\* A file is a sequence of tokens: "\n", the marker "## [", and runs of other
\* text; "#" before the marker is the heading "### [", which holds the marker.
NoFile == [exists |-> FALSE, content |-> <<>>]
File(content) == [exists |-> TRUE, content |-> content]

CHANGELOG_HEADER ==
  <<"# Changelog", "\n", "\n", "All notable changes ...", "\n", "\n">>
VERSION_SECTION_MARKER == "## ["

\* str::trim on a text: the white space at its two ends is removed.
RECURSIVE TrimText(_)
TrimText(text) ==
  IF text = <<>> THEN <<>>
  ELSE IF Head(text) \in {" ", "\n"} THEN TrimText(Tail(text))
  ELSE IF text[Len(text)] \in {" ", "\n"} THEN TrimText(SubSeq(text, 1, Len(text) - 1))
  ELSE text

\* format_changelog_section: format!("{} {}] - {}\n\n{}", VERSION_SECTION_MARKER,
\* version, today, changes_markdown.trim()).
FormatChangelogSection(version, changes_markdown) ==
  <<VERSION_SECTION_MARKER, " ">> \o version \o <<"] - today", "\n", "\n">>
    \o TrimText(changes_markdown)

\* A call of format_changelog_section on its own.
NoFormat == [version |-> <<>>, changes_markdown |-> <<>>, called |-> FALSE, ret |-> <<>>]
FormatCall ==
  /\ run_pc = "format"
  /\ ~formatted.called
  /\ formatted' = [formatted EXCEPT !.called = TRUE,
                                     !.ret = FormatChangelogSection(formatted.version,
                                                                    formatted.changes_markdown)]
  /\ UNCHANGED <<repo, args, pc, all_tags, potential_tags, latest_semver_tag, result, log>>
  /\ UNCHANGED <<app, disk, output, calc>>

\* Changelog sections as run_commitsense formats them.
Sections == {FormatChangelogSection(N101, <<"- fix">>),
             FormatChangelogSection(N100, <<"- a", "\n", "- b">>)}

\* str::find: the number of tokens before the first occurrence, -1 for None.
FindMarker(content) ==
  LET hits == {i \in 1..Len(content) : content[i] = VERSION_SECTION_MARKER} IN
  IF hits = {} THEN -1 ELSE (CHOOSE i \in hits : \A j \in hits : i <= j) - 1
FindBlankLines(content) ==
  LET hits == {i \in 1..(Len(content) - 2) :
                 content[i] = "\n" /\ content[i + 1] = "\n" /\ content[i + 2] = "\n"} IN
  IF hits = {} THEN -1 ELSE (CHOOSE i \in hits : \A j \in hits : i <= j) - 1

\* insert_pos: before the first marker; without one, two newlines into the
\* first run of three, or the end of the file; in a new file, after the header.
\* (Fault variant: always the end of the file.)
InsertPosAtEnd(existing_content, file_existed) == Len(existing_content)
InsertPos(existing_content, file_existed) ==
  IF file_existed
  THEN IF FindMarker(existing_content) # -1 THEN FindMarker(existing_content)
       ELSE IF FindBlankLines(existing_content) # -1 THEN FindBlankLines(existing_content) + 2
       ELSE Len(existing_content)
  ELSE Len(CHANGELOG_HEADER)

\* write_changelog: the content the file is overwritten with.
WriteChangelog(file, new_section) ==
  LET file_existed == file.exists
      existing_content == IF file_existed THEN file.content ELSE CHANGELOG_HEADER
      insert_pos == InsertPos(existing_content, file_existed)
  IN File(SubSeq(existing_content, 1, insert_pos) \o new_section \o <<"\n", "\n">>
          \o SubSeq(existing_content, insert_pos + 1, Len(existing_content)))

\* A record of one write: which file, its content before, what was asked for,
\* and whether the call returned Ok.
Written(file, before, arg, ok) == [file |-> file, before |-> before, arg |-> arg, ok |-> ok]

\* What a call may leave behind. A failure to read the file, or to open it for
\* writing, leaves it as it is; once opened with truncate(true), a failure of
\* write_all leaves any shorter start of the new content, the empty file included.
Failed(file) == [ok |-> FALSE, file |-> file]
Succeeded(file) == [ok |-> TRUE, file |-> file]
WriteChangelogOutcomes(file, new_section) ==
  LET new_content == WriteChangelog(file, new_section).content IN
  {Succeeded(File(new_content)), Failed(file)}
    \cup {Failed(File(SubSeq(new_content, 1, n))) : n \in 0..(Len(new_content) - 1)}

\* A call of write_changelog on its own, on any file; and one of a series of
\* calls in one directory.
WriteChangelogCall ==
  /\ \/ run_pc = "changelog" /\ Len(written) < MaxWrites
     \/ run_pc = "changelogs" /\ Len(written) < MaxSections
  /\ \E new_section \in Sections :
       \E outcome \in WriteChangelogOutcomes(changelog, new_section) :
         /\ changelog' = outcome.file
         /\ written' = IF outcome.file = changelog THEN written
                        ELSE Append(written, Written("CHANGELOG.md", changelog, new_section,
                                                     outcome.ok))
  /\ UNCHANGED <<repo, args, pc, all_tags, potential_tags, latest_semver_tag, result, log>>
  /\ UNCHANGED <<app, version_file, project, output, calls>>

\* -------------------------------------------------------------- version.rs
\* semver::Version as a value: three u64 numbers, pre-release, build metadata.
\* U64Max stands for 2^64 - 1, the largest u64 (a number TLC cannot hold):
\* the numbers are those near 0 and the largest one.
U64Max == 1000000
Numbers == (0..MaxNum) \cup {U64Max}
Version(major, minor, patch, pre, build) ==
  [major |-> major, minor |-> minor, patch |-> patch, pre |-> pre, build |-> build]

\* `x += 1` on a u64: a build with overflow checks (debug) panics at u64::MAX,
\* a build without them (release) wraps around to 0.
WrappingInc(n) == (n + 1) % (U64Max + 1)

NotReturned == [status |-> "none", version |-> Version(0, 0, 0, <<>>, <<>>)]
Returned(version) == [status |-> "returned", version |-> version]
Panicked == [status |-> "panic", version |-> Version(0, 0, 0, <<>>, <<>>)]

\* The match arms of calculate_expected_version.
Bumped(current, bump_type) ==
  CASE bump_type = "major" -> Version(WrappingInc(current.major), 0, 0, <<>>, <<>>)
    [] bump_type = "minor" -> Version(current.major, WrappingInc(current.minor), 0, <<>>, <<>>)
    [] bump_type = "patch" -> Version(current.major, current.minor, WrappingInc(current.patch), <<>>, <<>>)
    [] OTHER -> current

\* The number the bump increments.
Incremented(current, bump_type) ==
  CASE bump_type = "major" -> current.major
    [] bump_type = "minor" -> current.minor
    [] bump_type = "patch" -> current.patch
    [] OTHER -> 0

\* calculate_expected_version(current_version, bump_type), in a build with or
\* without overflow checks.
CalculateExpectedVersion(current_version, bump_type, overflow_checks) ==
  IF overflow_checks /\ Incremented(current_version, bump_type) = U64Max
  THEN Panicked
  ELSE Returned(Bumped(current_version, bump_type))

\* A call of calculate_expected_version on its own.
CalculateCall ==
  /\ run_pc = "calculate"
  /\ calc.ret = NotReturned
  /\ \E overflow_checks \in BOOLEAN :
       calc' = [calc EXCEPT !.ret = CalculateExpectedVersion(calc.current, calc.bump_type,
                                                             overflow_checks)]
  /\ UNCHANGED <<repo, args, pc, all_tags, potential_tags, latest_semver_tag, result, log>>
  /\ UNCHANGED <<app, disk, output, formatted>>

\* create_nightly_version(..).to_string(): MAJOR.MINOR.PATCH-nightly.<date>.
NightlyVersionString(version_str) ==
  SubSeq(version_str, 1, 5) \o <<"-", "nightly", ".", "today">>

\* -------------------------------------------------------------- project.rs
\* A manifest's text is a sequence of lines: comments, table headers (TOML)
\* and `key = value` fields; a value is a string or something else. A JSON
\* text has fields only, or is not an object at all.
String(s) == [type |-> "string", val |-> s]
Integer(n) == [type |-> "integer", val |-> <<n>>]
Comment == [kind |-> "comment", key |-> "", value |-> String(<<>>)]
TableHeader(name) == [kind |-> "table", key |-> name, value |-> String(<<>>)]
Field(key, value) == [kind |-> "field", key |-> key, value |-> value]
NotObject == [kind |-> "scalar", key |-> "", value |-> String(<<>>)]

\* A parsed document: the tables it has and its values by path <<table, key>>;
\* the root table is "".
ParseError == [ok |-> FALSE, root_object |-> FALSE, tables |-> {}, fields |-> <<>>]
Parsed(root_object, tables, fields) ==
  [ok |-> TRUE, root_object |-> root_object, tables |-> tables, fields |-> fields]

\* The table a line belongs to: the last header before it.
TableOf(lines, i) ==
  LET headers == {j \in 1..(i - 1) : lines[j].kind = "table"} IN
  IF headers = {} THEN "" ELSE lines[CHOOSE j \in headers : \A k \in headers : k <= j].key
PathOf(lines, i) == <<TableOf(lines, i), lines[i].key>>
FieldLines(lines) == {i \in 1..Len(lines) : lines[i].kind = "field"}

\* toml::from_str: a key or a table given twice is an error.
ParseToml(lines) ==
  LET headers == {i \in 1..Len(lines) : lines[i].kind = "table"}
      at == FieldLines(lines)
      paths == {PathOf(lines, i) : i \in at}
  IN IF \/ \E i \in 1..Len(lines) : lines[i].kind = "scalar"
        \/ \E i, j \in headers : i # j /\ lines[i].key = lines[j].key
        \/ \E i, j \in at : i # j /\ PathOf(lines, i) = PathOf(lines, j)
     THEN ParseError
     ELSE Parsed(TRUE, {lines[i].key : i \in headers},
                 [p \in paths |-> lines[CHOOSE i \in at : PathOf(lines, i) = p].value])

\* serde_json::from_str: no comments and no table headers; of a key given
\* twice the last value is kept; the text may be something else than an object.
ParseJson(lines) ==
  LET at == FieldLines(lines)
      paths == {PathOf(lines, i) : i \in at}
  IN IF \E i \in 1..Len(lines) : lines[i].kind \in {"comment", "table"} THEN ParseError
     ELSE IF \E i \in 1..Len(lines) : lines[i].kind = "scalar"
          THEN IF Len(lines) = 1 THEN Parsed(FALSE, {}, <<>>) ELSE ParseError
          ELSE Parsed(TRUE, {},
                      [p \in paths |->
                         lines[CHOOSE i \in at : /\ PathOf(lines, i) = p
                                                 /\ \A j \in at : PathOf(lines, j) = p => j <= i].value])

\* The maps of toml::Value and serde_json::Value keep their keys sorted
\* (BTreeMap, the crates' default features).
SortedKeys == <<"name", "version">>
SortedTables == <<"dependencies", "package">>

\* The fields of one table, in key order.
FieldsOf(parsed, table) ==
  LET keys == SelectSeq(SortedKeys, LAMBDA k : <<table, k>> \in DOMAIN parsed.fields) IN
  [i \in 1..Len(keys) |-> Field(keys[i], parsed.fields[<<table, keys[i]>>])]
RECURSIVE TablesOf(_, _)
TablesOf(parsed, names) ==
  IF names = <<>> THEN <<>>
  ELSE <<TableHeader(Head(names))>> \o FieldsOf(parsed, Head(names))
         \o TablesOf(parsed, Tail(names))

\* toml::to_string_pretty: the root's values, then the tables.
SerializeToml(parsed) ==
  FieldsOf(parsed, "") \o TablesOf(parsed, SelectSeq(SortedTables, LAMBDA t : t \in parsed.tables))
\* serde_json::to_string_pretty.
SerializeJson(parsed) == FieldsOf(parsed, "")

Parse(project_type, lines) == IF project_type = "rust" THEN ParseToml(lines) ELSE ParseJson(lines)

\* Where the version is: [package].version in Cargo.toml, the top-level
\* "version" in package.json.
VersionPath(project_type) ==
  IF project_type = "rust" THEN <<"package", "version">> ELSE <<"", "version">>

NotRead == [status |-> "none", version |-> <<>>, after |-> 0]
Read(version, after) == [status |-> "ok", version |-> version, after |-> after]
ReadErr(after) == [status |-> "err", version |-> <<>>, after |-> after]
NoProject == [project_type |-> "rust", content |-> <<>>, read |-> NotRead]

\* get_current_version: the version field, if it is there and is a string.
GetCurrentVersion(project_type, content) ==
  LET parsed == Parse(project_type, content)
      path == VersionPath(project_type)
  IN IF ~parsed.ok THEN [ok |-> FALSE, version |-> <<>>]
     ELSE IF path \notin DOMAIN parsed.fields THEN [ok |-> FALSE, version |-> <<>>]
     ELSE IF parsed.fields[path].type # "string" THEN [ok |-> FALSE, version |-> <<>>]
     ELSE [ok |-> TRUE, version |-> parsed.fields[path].val]

\* `insert("version", String(new_version))` into the package table or the root.
\* (Fault variant: into the root in both formats.)
InsertVersionAtRoot(parsed, project_type, new_version) ==
  [parsed EXCEPT !.fields = [p \in DOMAIN parsed.fields \cup {<<"", "version">>} |->
                               IF p = <<"", "version">> THEN String(new_version)
                               ELSE parsed.fields[p]]]
InsertVersion(parsed, project_type, new_version) ==
  LET path == VersionPath(project_type) IN
  [parsed EXCEPT !.fields = [p \in DOMAIN parsed.fields \cup {path} |->
                               IF p = path THEN String(new_version) ELSE parsed.fields[p]]]

\* set_version up to the write: the new text of the manifest, or an error
\* (no parse, no [package] table, a root that is not an object).
SetVersion(project_type, content, new_version) ==
  LET parsed == Parse(project_type, content)
      updated == InsertVersion(parsed, project_type, new_version)
  IN IF ~parsed.ok THEN [ok |-> FALSE, content |-> content]
     ELSE IF project_type = "rust"
          THEN IF "package" \notin parsed.tables THEN [ok |-> FALSE, content |-> content]
               ELSE [ok |-> TRUE, content |-> SerializeToml(updated)]
          ELSE IF ~parsed.root_object THEN [ok |-> FALSE, content |-> content]
               ELSE [ok |-> TRUE, content |-> SerializeJson(updated)]

\* What a call of set_version may leave in the file: fs::write truncates the
\* file and then writes, so a failed write leaves a start of the new text.
SetVersionOutcomes(project_type, content, new_version) ==
  LET updated == SetVersion(project_type, content, new_version) IN
  IF ~updated.ok THEN {[ok |-> FALSE, content |-> content]}
  ELSE {updated, [ok |-> FALSE, content |-> content]}
         \cup {[ok |-> FALSE, content |-> SubSeq(updated.content, 1, n)] :
                 n \in 0..(Len(updated.content) - 1)}

\* A call of set_version on its own.
SetVersionCall ==
  /\ run_pc = "manifest"
  /\ Len(written) < MaxWrites
  /\ \E new_version \in {N101, V200rc1} :
       \E outcome \in SetVersionOutcomes(project.project_type, project.content, new_version) :
         /\ project' = [project EXCEPT !.content = outcome.content]
         /\ written' = Append(written, Written("version", project.content, new_version, outcome.ok))
  /\ UNCHANGED <<repo, args, pc, all_tags, potential_tags, latest_semver_tag, result, log>>
  /\ UNCHANGED <<app, version_file, changelog, output, calls>>

\* A call of get_current_version on its own; reading the file may fail.
GetCurrentVersionCall ==
  /\ run_pc = "manifest"
  /\ \E read_ok \in BOOLEAN :
       LET got == GetCurrentVersion(project.project_type, project.content) IN
       project' = [project EXCEPT !.read = IF read_ok /\ got.ok
                                           THEN Read(got.version, Len(written))
                                           ELSE ReadErr(Len(written))]
  /\ UNCHANGED <<repo, args, pc, all_tags, potential_tags, latest_semver_tag, result, log>>
  /\ UNCHANGED <<app, version_file, changelog, written, output, calls>>

\* ----------------------------------------------------------------- main.rs
NoOutput == [status |-> "running", bump_type |-> "", next_version |-> <<>>]
Exit(status, bump_type, next_version) ==
  [status |-> status, bump_type |-> bump_type, next_version |-> next_version]

NoSuggestion ==
  [status |-> "none", bump_type |-> "", next_version |-> <<>>, changelog_markdown |-> <<>>]
Suggestion(bump_type, next_version, changelog_markdown) ==
  [status |-> "ok", bump_type |-> bump_type, next_version |-> next_version,
   changelog_markdown |-> changelog_markdown]
\* What the suggestion client may return: a bump or none, and a version string
\* that may not parse.
Suggestions ==
  {Suggestion("none", N100, <<"- none">>), Suggestion("patch", N101, <<"- fix">>),
   Suggestion("minor", Latest, <<"- feat">>)}

\* clap: `conflicts_with` between --tag-pattern and --tag-regex.
\* (Fault variant: no conflict is declared.)
ParseConflictIgnored == FALSE
ParseConflict == argv.tag_pattern.some /\ argv.tag_regex.some

\* Cli::parse(): a usage error ends the process before run_commitsense.
ParseCli ==
  /\ run_pc = "parse"
  /\ IF ParseConflict
     THEN run_pc' = "exit" /\ output' = Exit("usage", "", <<>>)
     ELSE run_pc' = "project" /\ output' = output
  /\ UNCHANGED <<repo, args, pc, all_tags, potential_tags, latest_semver_tag, result, log>>
  /\ UNCHANGED <<argv, current_version_str, new_commits, ai_suggestion, disk, calls>>

\* Project::new, get_current_version, and the call of find_base_commit_oid
\* with the options of the command line.
LoadProject ==
  /\ run_pc = "project"
  /\ \/ \* no project file, or no version in it
        /\ run_pc' = "exit"
        /\ output' = Exit("err", "", <<>>)
        /\ UNCHANGED <<args, pc, current_version_str>>
     \/ /\ current_version_str' = version_file
        /\ base_ref_opt' = argv.base_ref
        /\ tag_pattern_opt' = argv.tag_pattern
        /\ tag_regex_opt' = argv.tag_regex
        /\ pc' = "start"
        /\ run_pc' = "resolve"
        /\ output' = output
  /\ UNCHANGED <<repo, all_tags, potential_tags, latest_semver_tag, result, log>>
  /\ UNCHANGED <<argv, new_commits, ai_suggestion, disk, calls>>

\* `.context("Failed to determine the base commit for analysis")?`.
ResolveFailed ==
  /\ run_pc = "resolve"
  /\ pc = "done"
  /\ result.status = "err"
  /\ run_pc' = "exit"
  /\ output' = Exit("err", "", <<>>)
  /\ UNCHANGED <<repo, args, pc, all_tags, potential_tags, latest_semver_tag, result, log>>
  /\ UNCHANGED <<argv, current_version_str, new_commits, ai_suggestion, disk, calls>>

\* The call git::get_commits_since_oid(&project_path, &base_oid).
GetCommitsSinceOid ==
  /\ run_pc = "resolve"
  /\ pc = "done"
  /\ result.status = "ok"
  /\ \E head_ok \in BOOLEAN, log_ok \in BOOLEAN :
       new_commits' = CommitsSinceOid(result.oid, head_ok, log_ok)
  /\ run_pc' = "commits"
  /\ UNCHANGED <<repo, args, pc, all_tags, potential_tags, latest_semver_tag, result, log>>
  /\ UNCHANGED <<argv, current_version_str, ai_suggestion, disk, output, calls>>

\* `?` on the result, then `if commits.is_empty()`: report that nothing changed.
NoNewCommits == new_commits.msgs = <<>>

CheckCommits ==
  /\ run_pc = "commits"
  /\ IF new_commits.status = "err"
     THEN run_pc' = "exit" /\ output' = Exit("err", "", <<>>)
     ELSE IF NoNewCommits
          THEN run_pc' = "exit" /\ output' = Exit("ok", "none", current_version_str)
          ELSE run_pc' = "suggest" /\ output' = output
  /\ UNCHANGED <<repo, args, pc, all_tags, potential_tags, latest_semver_tag, result, log>>
  /\ UNCHANGED <<argv, current_version_str, new_commits, ai_suggestion, disk, calls>>

\* The suggestion client, then the nightly conversion of its version.
GetSuggestion ==
  /\ run_pc = "suggest"
  /\ \/ \* the request fails, or its answer does not validate
        /\ ai_suggestion' = [NoSuggestion EXCEPT !.status = "err"]
        /\ run_pc' = "exit"
        /\ output' = Exit("err", "", <<>>)
     \/ \E suggestion \in Suggestions :
        /\ ai_suggestion' = suggestion
        /\ IF argv.nightly /\ ~VersionParse(suggestion.next_version).ok
           THEN run_pc' = "exit" /\ output' = Exit("err", "", <<>>)
           ELSE run_pc' = "write" /\ output' = output
  /\ UNCHANGED <<repo, args, pc, all_tags, potential_tags, latest_semver_tag, result, log>>
  /\ UNCHANGED <<argv, current_version_str, new_commits, disk, calls>>

\* `if config.write { if ai_suggestion.bump_type != "none" || config.nightly {`.
\* (Fault variant: the --write flag is not looked at.)
ShouldWriteWithoutFlag == ai_suggestion.bump_type # "none" \/ argv.nightly
ShouldWrite == argv.write /\ (ai_suggestion.bump_type # "none" \/ argv.nightly)

\* project.set_version(&final_version): the version file holds the new version,
\* or the call failed and left the file as it was or, once fs::write had
\* truncated it, empty.
RunSetVersionOutcomes(file, final_version) ==
  {Succeeded(final_version), Failed(file), Failed(<<>>)}

\* `.set_version(..).context(..)?` and then write_changelog: a failure of
\* set_version returns from run_commitsense before CHANGELOG.md is opened.
\* (Fault variant: the error of set_version is dropped and the changelog written.)
AfterSetVersionIgnoringError(set_ok, file, changelog_section) ==
  WriteChangelogOutcomes(file, changelog_section)
AfterSetVersion(set_ok, file, changelog_section) ==
  IF set_ok THEN WriteChangelogOutcomes(file, changelog_section) ELSE {Failed(file)}

\* The results are printed; with --write, set_version and then write_changelog,
\* each of which may fail and end the run.
ApplyChanges ==
  /\ run_pc = "write"
  /\ LET final_version == IF argv.nightly THEN NightlyVersionString(ai_suggestion.next_version)
                          ELSE ai_suggestion.next_version
         changelog_section == FormatChangelogSection(final_version,
                                                     ai_suggestion.changelog_markdown)
         printed(status) == Exit(status, ai_suggestion.bump_type, ai_suggestion.next_version)
     IN IF ShouldWrite
        THEN \E set \in RunSetVersionOutcomes(version_file, final_version) :
             \E outcome \in AfterSetVersion(set.ok, changelog, changelog_section) :
               /\ version_file' = set.file
               /\ project' = project
               /\ changelog' = outcome.file
               /\ written' =
                    written
                      \o (IF ~set.ok /\ set.file = version_file THEN <<>>
                          ELSE <<Written("version", version_file, final_version, set.ok)>>)
                      \o (IF outcome.file = changelog THEN <<>>
                          ELSE <<Written("CHANGELOG.md", changelog, changelog_section,
                                         outcome.ok)>>)
               /\ output' = printed(IF set.ok /\ outcome.ok THEN "ok" ELSE "err")
        ELSE /\ output' = printed("ok")
             /\ UNCHANGED disk
  /\ run_pc' = "exit"
  /\ UNCHANGED <<repo, args, pc, all_tags, potential_tags, latest_semver_tag, result, log>>
  /\ UNCHANGED <<argv, current_version_str, new_commits, ai_suggestion, calls>>

\* ---------------------------------------------------------- specification
\* The repositories and the arguments of one call, drawn from the given universes.
Histories(Msgs, Times) ==
  UNION {[1..n -> [msg : Msgs, time : Times]] : n \in 0..MaxCommits}
TagMaps(Names, n) ==
  UNION {[S -> 1..n] : S \in {T \in SUBSET Names : Cardinality(T) <= MaxTags}}
Options(S) == {None} \cup {Some(x) : x \in S}

NoArgv == [base_ref |-> None, tag_pattern |-> None, tag_regex |-> None,
           write |-> FALSE, nightly |-> FALSE]
NoCalc == [current |-> Version(0, 0, 0, <<>>, <<>>), bump_type |-> "", ret |-> NotReturned]

\* run_commitsense is not running: find_base_commit_oid is called on its own.
InitIdle ==
  /\ argv = NoArgv
  /\ run_pc = "idle"
  /\ current_version_str = <<>>
  /\ new_commits = NotCalled
  /\ ai_suggestion = NoSuggestion
  /\ version_file = <<>>
  /\ project = NoProject
  /\ changelog = NoFile
  /\ written = <<>>
  /\ output = NoOutput
  /\ calc = NoCalc
  /\ formatted = NoFormat

InitLocals ==
  /\ pc = "start"
  /\ all_tags = <<>>
  /\ potential_tags = <<>>
  /\ latest_semver_tag = None
  /\ result = Running
  /\ log = <<>>
  /\ InitIdle

\* A history without merges: every commit but the first has one parent.
Linear(n) == [i \in 1..n |-> IF i = 1 THEN {} ELSE {i - 1}]
\* Unrelated histories of one commit each, merged by the commit at HEAD.
Merged(k) == [i \in 1..(k + 1) |-> IF i <= k THEN {} ELSE 1..k]

InitWith(Msgs, Times, Names, Refs, Globs, Regexes) ==
  /\ commits \in Histories(Msgs, Times)
  /\ parents = Linear(Len(commits))
  /\ tags \in TagMaps(Names, Len(commits))
  /\ base_ref_opt \in Options(Refs)
  /\ tag_pattern_opt \in Options(Globs)
  /\ tag_regex_opt \in Options(Regexes)
  /\ InitLocals

GlobV == <<"v", "*">>
GlobAll == <<"*">>
GlobBad == <<"[">>
RegexV == <<"^", "v">>
RegexZero == <<"0">>
RegexBad == <<"(">>

\* The calls checked, in three families of inputs, each rich in one dimension.
\* General: every combination of arguments, valid or not, and release commits.
InitGeneral ==
  InitWith({MsgPlain, MsgLower}, {1}, {V100, Latest, BadUtf8}, {HeadRef, MissingRef, V100},
           {GlobV, GlobBad}, {RegexV, RegexBad})
\* Every shape of commit message, for the release-commit search.
InitRelease ==
  InitWith({MsgPlain, MsgLower, MsgUpper, MsgMid, MsgBody}, {1}, {V100}, {}, {}, {})
\* Tags at arbitrary commit times, under a glob or a regex.
InitTagMatch ==
  /\ InitWith({MsgPlain}, 1..MaxTime, {V100, V090, Latest}, {HeadRef},
              {GlobV, GlobAll}, {RegexV, RegexZero})
  /\ tag_pattern_opt.some # tag_regex_opt.some
\* Semantic-version tags at arbitrary commit times.
InitSemver ==
  InitWith({MsgPlain}, 1..MaxTime, {V100, N100, V200rc1, V200}, {HeadRef}, {}, {})
\* Tags that are not versions, next to one that is.
InitNoise ==
  InitWith({MsgPlain}, {1}, {V100, Latest, VV100, Short10}, {}, {}, {})
\* Several root commits under a merge, and no tag that is a version.
InitMerge ==
  /\ \E k \in 2..MaxRoots :
       /\ commits \in [1..(k + 1) -> [msg : {MsgPlain}, time : 1..MaxTime]]
       /\ parents = Merged(k)
  /\ tags \in TagMaps({Latest}, Len(commits))
  /\ base_ref_opt = None
  /\ tag_pattern_opt \in Options({GlobV})
  /\ tag_regex_opt = None
  /\ InitLocals
\* The repository of the specification's example: exactly these three tags.
ExampleTags == {V100, V090, V200rc1}
InitExample ==
  /\ commits \in Histories({MsgPlain}, 1..MaxTime)
  /\ Len(commits) > 0
  /\ parents = Linear(Len(commits))
  /\ tags \in [ExampleTags -> 1..Len(commits)]
  /\ base_ref_opt = None
  /\ tag_pattern_opt = None
  /\ tag_regex_opt = None
  /\ InitLocals

\* find_base_commit_oid has not been called.
InitUncalled ==
  /\ base_ref_opt = None
  /\ tag_pattern_opt = None
  /\ tag_regex_opt = None
  /\ pc = "uncalled"
  /\ all_tags = <<>>
  /\ potential_tags = <<>>
  /\ latest_semver_tag = None
  /\ result = Running
  /\ log = <<>>

\* A run of the program: a command line, a project at version 1.0.0, a repository.
InitRun ==
  /\ commits \in Histories({MsgPlain, MsgMarker, MsgEmpty}, {1})
  /\ parents = Linear(Len(commits))
  /\ tags \in TagMaps({V100}, Len(commits))
  /\ InitUncalled
  /\ argv \in [base_ref : Options({HeadRef}), tag_pattern : Options({GlobV}),
                tag_regex : Options({RegexV}), write : BOOLEAN, nightly : BOOLEAN]
  /\ run_pc = "parse"
  /\ current_version_str = <<>>
  /\ new_commits = NotCalled
  /\ ai_suggestion = NoSuggestion
  /\ version_file = N100
  /\ project = NoProject
  /\ changelog \in {NoFile, File(CHANGELOG_HEADER)}
  /\ written = <<>>
  /\ output = NoOutput
  /\ calc = NoCalc
  /\ formatted = NoFormat

\* Calls of write_changelog: no file, any short file, a file with a section.
FileTokens == {"text", "#", "\n", VERSION_SECTION_MARKER}
FileContents ==
  UNION {[1..n -> FileTokens] : n \in 0..MaxFile}
    \cup {CHANGELOG_HEADER \o section \o <<"\n">> : section \in Sections}
InitChangelog ==
  /\ commits = <<>>
  /\ parents = <<>>
  /\ tags = <<>>
  /\ InitUncalled
  /\ argv = NoArgv
  /\ run_pc = "changelog"
  /\ current_version_str = <<>>
  /\ new_commits = NotCalled
  /\ ai_suggestion = NoSuggestion
  /\ version_file = <<>>
  /\ project = NoProject
  /\ changelog \in {NoFile} \cup {File(c) : c \in FileContents}
  /\ written = <<>>
  /\ output = NoOutput
  /\ calc = NoCalc
  /\ formatted = NoFormat

\* A series of calls of write_changelog in a directory without a CHANGELOG.md.
InitChangelogs ==
  /\ commits = <<>>
  /\ parents = <<>>
  /\ tags = <<>>
  /\ InitUncalled
  /\ argv = NoArgv
  /\ run_pc = "changelogs"
  /\ current_version_str = <<>>
  /\ new_commits = NotCalled
  /\ ai_suggestion = NoSuggestion
  /\ version_file = <<>>
  /\ project = NoProject
  /\ changelog = NoFile
  /\ written = <<>>
  /\ output = NoOutput
  /\ calc = NoCalc
  /\ formatted = NoFormat

\* Calls of format_changelog_section: changes with white space anywhere.
Texts == UNION {[1..n -> {"- x", " ", "\n"}] : n \in 0..MaxText}
InitFormat ==
  /\ commits = <<>>
  /\ parents = <<>>
  /\ tags = <<>>
  /\ InitUncalled
  /\ argv = NoArgv
  /\ run_pc = "format"
  /\ current_version_str = <<>>
  /\ new_commits = NotCalled
  /\ ai_suggestion = NoSuggestion
  /\ version_file = <<>>
  /\ project = NoProject
  /\ changelog = NoFile
  /\ written = <<>>
  /\ output = NoOutput
  /\ calc = NoCalc
  /\ formatted \in [version : {N100, N101, V200rc1}, changes_markdown : Texts,
                     called : {FALSE}, ret : {<<>>}]

\* Calls of calculate_expected_version.
Versions ==
  {Version(major, minor, patch, pre, build) :
     major \in Numbers, minor \in Numbers, patch \in Numbers,
     pre \in {<<>>, <<"alpha", "1">>}, build \in {<<>>, <<"build", "123">>}}
BumpTypes == {"major", "minor", "patch", "none", "invalid"}
InitCalculate ==
  /\ commits = <<>>
  /\ parents = <<>>
  /\ tags = <<>>
  /\ InitUncalled
  /\ argv = NoArgv
  /\ run_pc = "calculate"
  /\ current_version_str = <<>>
  /\ new_commits = NotCalled
  /\ ai_suggestion = NoSuggestion
  /\ version_file = <<>>
  /\ project = NoProject
  /\ changelog = NoFile
  /\ written = <<>>
  /\ output = NoOutput
  /\ calc \in [current : Versions, bump_type : BumpTypes, ret : {NotReturned}]
  /\ formatted = NoFormat

\* Calls of set_version and get_current_version: every short manifest of
\* either format, well-formed or not.
TomlLines ==
  {Comment, TableHeader("package"), TableHeader("dependencies"),
   Field("name", String(<<"a">>)), Field("version", String(N100)), Field("version", Integer(1))}
JsonLines ==
  {NotObject, Field("name", String(<<"a">>)), Field("version", String(N100)),
   Field("version", Integer(1))}
Manifests(Lines) == UNION {[1..n -> Lines] : n \in 0..MaxLines}
InitProject ==
  /\ commits = <<>>
  /\ parents = <<>>
  /\ tags = <<>>
  /\ InitUncalled
  /\ argv = NoArgv
  /\ run_pc = "manifest"
  /\ current_version_str = <<>>
  /\ new_commits = NotCalled
  /\ ai_suggestion = NoSuggestion
  /\ version_file = <<>>
  /\ \/ project \in [project_type : {"rust"}, content : Manifests(TomlLines), read : {NotRead}]
     \/ project \in [project_type : {"js"}, content : Manifests(JsonLines), read : {NotRead}]
  /\ changelog = NoFile
  /\ written = <<>>
  /\ output = NoOutput
  /\ calc = NoCalc
  /\ formatted = NoFormat

Init == InitGeneral \/ InitRelease \/ InitNoise \/ InitMerge
InitTags == InitTagMatch
InitVersions == InitSemver \/ InitExample

Next ==
  \/ ExplicitRef
  \/ ListTags
  \/ MatchTags
  \/ ReleaseSearch
  \/ SemverTags
  \/ InitialCommit

\* run_commitsense, with find_base_commit_oid inside it.
NextRun ==
  \/ ParseCli
  \/ LoadProject
  \/ Next
  \/ ResolveFailed
  \/ GetCommitsSinceOid
  \/ CheckCommits
  \/ GetSuggestion
  \/ ApplyChanges

NextChangelog == WriteChangelogCall
NextCalculate == CalculateCall
NextProject == SetVersionCall \/ GetCurrentVersionCall
NextFormat == FormatCall

Spec == Init /\ [][Next]_vars
SpecRun == InitRun /\ [][NextRun]_vars
SpecChangelog == InitChangelog /\ [][NextChangelog]_vars
SpecCalculate == InitCalculate /\ [][NextCalculate]_vars
SpecProject == InitProject /\ [][NextProject]_vars
SpecFormat == InitFormat /\ [][NextFormat]_vars
SpecChangelogs == InitChangelogs /\ [][NextChangelog]_vars
SpecTags == InitTags /\ [][Next]_vars
SpecVersions == InitVersions /\ [][Next]_vars

\* ------------------------------------------------------------- properties
Last(s) == s[Len(s)]
Listed == Range(all_tags)
SemverTagNames == {t \in Listed : VersionParse(StripPrefixV(t)).ok}

\* C1: when an explicit reference is given and resolves, the call returns the
\* commit that reference points to, whatever the glob and the regex are; no tag
\* listing, candidate search, release-commit search or root-commit query has run.
C1_ExplicitRefReturned ==
  (base_ref_opt.some /\ result.status = "ok") =>
    /\ result.oid = RefTarget(base_ref_opt.val)
    /\ log = <<Entry("explicit", "ok", {})>>
    /\ all_tags = <<>>
    /\ potential_tags = <<>>
    /\ latest_semver_tag = None

\* C1 happens: HEAD given together with a glob and a regex, in a repository where
\* the glob matches a tag on another commit and a release commit exists.
C1_Witness ==
  /\ base_ref_opt = Some(HeadRef)
  /\ tag_pattern_opt = Some(GlobV)
  /\ tag_regex_opt = Some(RegexV)
  /\ V100 \in DOMAIN tags
  /\ tags[V100] # Len(commits)
  /\ ReleaseCommit # 0
  /\ result = Ok(Len(commits), <<>>)

\* C2: when an explicit reference is given and does not resolve, the call ends
\* at once with an error: strategy 1 is the only strategy that has run.
C2_UnresolvedExplicitRefIsFatal ==
  /\ (base_ref_opt.some /\ log # <<>> /\ log[1].outcome = "error") =>
       /\ pc = "done"
       /\ result.status = "err"
       /\ Len(log) = 1
       /\ log[1].strategy = "explicit"
  /\ (base_ref_opt.some /\ pc # "start" /\ ~RefExists(base_ref_opt.val)) =>
       /\ result.status = "err"
       /\ log[1].outcome = "error"

\* C2 happens: a missing reference, in a repository where the later strategies
\* (a semver tag, a release commit, a root commit) would each have found a base.
C2_Witness ==
  /\ base_ref_opt = Some(MissingRef)
  /\ V100 \in DOMAIN tags
  /\ ReleaseCommit # 0
  /\ pc = "done"
  /\ result.status = "err"

\* C3: the strategies run in the order explicit reference, glob/regex tag,
\* release commit, semver tag, initial commit; every strategy that ran before
\* the last one yielded nothing, and the identifier returned is the one the
\* last strategy found.
Chain == <<"list", "match", "release", "semver", "initial">>

YieldedNothing(i) ==
  CASE log[i].strategy = "list" -> log[i].outcome \in {"ok", "failed"}
    [] log[i].strategy = "match" ->
         \/ log[i].outcome = "skipped" /\ ~PatternMatch
         \/ log[i].outcome = "none" /\ PatternMatch
            /\ {t \in Listed : TagMatches(t)} \subseteq log[i].skipped
    [] log[i].strategy = "release" ->
         \/ log[i].outcome = "failed"
         \/ log[i].outcome = "none" /\ ReleaseCommit = 0
    [] log[i].strategy = "semver" ->
         log[i].outcome = "none" /\ SemverTagNames \subseteq log[i].skipped
    [] OTHER -> FALSE

Yielded(e) ==
  /\ e.outcome = "ok"
  /\ CASE e.strategy = "explicit" -> result.oid = RefTarget(base_ref_opt.val)
       [] e.strategy = "match" ->
            PatternMatch /\ TagMatches(result.tag) /\ result.oid = tags[result.tag]
       [] e.strategy = "release" -> result.oid = ReleaseCommit /\ ReleaseCommit # 0
       [] e.strategy = "semver" ->
            result.tag \in SemverTagNames /\ result.oid = tags[result.tag]
       [] e.strategy = "initial" -> result.oid = Head(RootCommits)
       [] OTHER -> FALSE

C3_StrictPriorityOrder ==
  /\ base_ref_opt.some => (log = <<>> \/ (Len(log) = 1 /\ log[1].strategy = "explicit"))
  /\ ~base_ref_opt.some =>
       /\ Len(log) <= Len(Chain)
       /\ \A i \in 1..Len(log) : log[i].strategy = Chain[i]
       /\ \A i \in 1..(Len(log) - 1) : YieldedNothing(i)
  /\ result.status = "ok" => (log # <<>> /\ Yielded(Last(log)))

\* C3 happens: a glob is given but its only match has no readable time, and the
\* release commit is returned although a semver tag exists.
C3_Witness ==
  /\ result.status = "ok"
  /\ Len(log) = 3
  /\ log[2].outcome = "none"
  /\ log[2].skipped = {V100}
  /\ log[3].strategy = "release"
  /\ V100 \in SemverTagNames

\* The glob/regex candidates after strategy 2/3, by name.
CandidateNames == {potential_tags[i].name : i \in 1..Len(potential_tags)}
VersionOf(t) == VersionParse(StripPrefixV(t))

\* C4: with a glob and no explicit reference, when some listed tag matches the
\* glob and has a readable commit time, the call ends in strategy 2 and the tag
\* chosen has the greatest commit time among those tags; the commit returned
\* is that tag's commit (an error only if resolving the chosen tag fails).
C4_GlobPicksLatestTime ==
  (tag_pattern_opt.some /\ ~base_ref_opt.some /\ GlobValid(tag_pattern_opt.val)
     /\ Len(log) >= 2) =>
    LET qualifying == {t \in Listed : GlobMatches(tag_pattern_opt.val, t)} \ log[2].skipped IN
    qualifying # {} =>
      /\ pc = "done"
      /\ Len(log) = 2
      /\ potential_tags # <<>>
      /\ LET chosen == Last(potential_tags).name IN
         /\ chosen \in qualifying
         /\ \A t \in qualifying : CommitTimeOf(t) <= CommitTimeOf(chosen)
         /\ result.status = "ok" => result = Ok(tags[chosen], chosen)
         /\ result.status = "err" <=> log[2].outcome = "error"

\* C4 happens: two tags match, the one listed first is on the younger commit,
\* and its commit is returned.
C4_Witness ==
  /\ tag_pattern_opt = Some(GlobV)
  /\ all_tags = <<V100, V090>>
  /\ Len(log) = 2
  /\ log[2].skipped = {}
  /\ CommitTimeOf(V090) < CommitTimeOf(V100)
  /\ tags[V090] # tags[V100]
  /\ result = Ok(tags[V100], V100)

\* C5: with a regex and neither explicit reference nor glob, the candidates are
\* the listed tags in which the regular expression finds a match, less those
\* whose commit time cannot be read, and the one chosen has the latest time.
C5_RegexFiltersAndPicksLatest ==
  (tag_regex_opt.some /\ ~tag_pattern_opt.some /\ ~base_ref_opt.some
     /\ RegexValid(tag_regex_opt.val) /\ Len(log) >= 2) =>
    LET matched == {t \in Listed : RegexIsMatch(tag_regex_opt.val, t)} IN
    /\ log[2].skipped \subseteq matched
    /\ CandidateNames = matched \ log[2].skipped
    /\ \A i \in 1..Len(potential_tags) :
         potential_tags[i].time = CommitTimeOf(potential_tags[i].name)
    /\ IF CandidateNames = {} THEN log[2].outcome = "none"
       ELSE /\ pc = "done"
            /\ Len(log) = 2
            /\ \A t \in CandidateNames : CommitTimeOf(t) <= Last(potential_tags).time
            /\ result.status = "ok" =>
                 result = Ok(tags[Last(potential_tags).name], Last(potential_tags).name)

\* C5 happens: the regex `0` matches two tags in the middle of their names, and
\* the commit of the one with the later time, listed first, is returned.
C5_Witness ==
  /\ tag_regex_opt = Some(RegexZero)
  /\ all_tags = <<V090, V100>>
  /\ Len(log) = 2
  /\ log[2].skipped = {}
  /\ CommitTimeOf(V100) < CommitTimeOf(V090)
  /\ tags[V090] # tags[V100]
  /\ result = Ok(tags[V090], V090)

\* C6: with a glob or a regex, when no listed tag matches or every matching
\* tag's commit time cannot be read, strategy 2/3 returns nothing, no error,
\* and the release-commit search runs next.
C6_NoCandidateFallsThrough ==
  (PatternMatch /\ PatternValid /\ ~base_ref_opt.some /\ Len(log) >= 2
     /\ {t \in Listed : TagMatches(t)} \subseteq log[2].skipped) =>
    /\ log[2].outcome = "none"
    /\ potential_tags = <<>>
    /\ IF Len(log) = 2 THEN pc = "release" /\ result = Running
       ELSE log[3].strategy = "release"

\* C6 happens: every tag the regex matches fails its time lookup, and the call
\* goes on through the release-commit search down to the initial commit.
C6_Witness ==
  /\ tag_regex_opt.some
  /\ Len(log) = 5
  /\ log[2].outcome = "none"
  /\ log[2].skipped # {}
  /\ result.status = "ok"

\* C7: a failure of the tag listing never ends the call with an error: the
\* list is taken as empty and the next strategy runs.
C7_ListingFailureNeverFatal ==
  (log # <<>> /\ log[1].strategy = "list" /\ log[1].outcome # "ok") =>
    /\ all_tags = <<>>
    /\ log[1].outcome = "failed"
    /\ Len(log) = 1 => (pc = "match" /\ result = Running)

\* C8: in strategies 2/3 and 5, a failed commit-time lookup removes that tag
\* alone: the candidates are all the other matching tags, and the semver
\* winner is the greatest version among all the other parsable tags.
C8_TimeFailureSkipsOnlyThatTag ==
  /\ (PatternMatch /\ PatternValid /\ ~base_ref_opt.some /\ Len(log) >= 2) =>
       /\ CandidateNames = {t \in Listed : TagMatches(t)} \ log[2].skipped
       /\ CandidateNames # {} => log[2].outcome \in {"ok", "error"}
       /\ log[2].outcome = "ok" => result.status = "ok"
  /\ (~base_ref_opt.some /\ Len(log) >= 4) =>
       LET survivors == SemverTagNames \ log[4].skipped IN
       IF survivors = {} THEN log[4].outcome = "none" /\ ~latest_semver_tag.some
       ELSE /\ log[4].outcome \in {"ok", "error"}
            /\ latest_semver_tag.some
            /\ latest_semver_tag.val.name \in survivors
            /\ \A t \in survivors :
                 ~VersionGreater(VersionOf(t), latest_semver_tag.val.version)

\* C8 happens: of two tags the glob matches, the time lookup of one fails and
\* the commit of the other is returned.
C8_Witness ==
  /\ tag_pattern_opt.some
  /\ Len(log) = 2
  /\ log[2].skipped # {}
  /\ potential_tags # <<>>
  /\ result.status = "ok"
  /\ result.tag \notin log[2].skipped

\* C9: the commit the release-commit strategy returns is the newest commit
\* whose message begins with `release: ` (in any letter case): a commit that
\* has the prefix only elsewhere in its message is not taken.
MessageBegins(msg) == msg # <<>> /\ msg[1] # <<>> /\ ToLower(msg[1][1]) = "release: "
C9_ReleasePrefixAtMessageStart ==
  (log # <<>> /\ Last(log).strategy = "release" /\ Last(log).outcome = "ok") =>
    /\ MessageBegins(commits[result.oid].msg)
    /\ \A j \in (result.oid + 1)..Len(commits) : ~MessageBegins(commits[j].msg)

IsSemverName(t) ==
  \/ VersionParse(t).ok
  \/ t # <<>> /\ t[1] = "v" /\ VersionParse(Tail(t)).ok
C11_NonSemverTagsIgnored ==
  (~base_ref_opt.some /\ Len(log) >= 4) =>
    /\ latest_semver_tag.some => IsSemverName(latest_semver_tag.val.name)
    /\ \A t \in log[4].skipped : IsSemverName(t)
    /\ (Len(log) = 4 /\ result.status = "ok") => IsSemverName(result.tag)
    /\ log[4].outcome = "error" => latest_semver_tag.some
    /\ (\A t \in Listed : ~IsSemverName(t)) =>
         /\ log[4].outcome = "none"
         /\ IF Len(log) = 4 THEN pc = "initial" /\ result = Running
            ELSE log[5].strategy = "initial"

\* C11 happens: `latest` and `vv1.0.0` are listed around `v1.0.0`, and the
\* commit of `v1.0.0` is returned; and: only such tags are listed, and the call
\* goes on to the initial commit.
C11_Witness ==
  /\ Len(log) = 4
  /\ all_tags = <<Latest, V100, VV100>> \/ all_tags = <<VV100, V100>>
  /\ result = Ok(tags[V100], V100)

\* C12: without an explicit reference, when strategies 2 to 5 yielded nothing
\* in a repository with at least one commit, the call returns the first of the
\* commits without parents that `git rev-list` reports from HEAD; it fails only
\* when that command itself fails, never with "no initial commit".
C12_InitialCommitFallback ==
  (~base_ref_opt.some /\ Len(log) = 5 /\ Len(commits) > 0) =>
    /\ \A i \in 1..4 : YieldedNothing(i)
    /\ log[5].strategy = "initial"
    /\ pc = "done"
    /\ IF log[5].outcome = "ok"
       THEN /\ result = Ok(RootCommits[1], <<>>)
            /\ parents[result.oid] = {}
            /\ \A r \in Range(RootCommits) : commits[r].time <= commits[result.oid].time
       ELSE result = Err("GitCommand")

\* C12 happens: two root commits under a merge, the second the younger one, and
\* the second is returned.
C12_Witness ==
  /\ Len(log) = 5
  /\ Len(RootCommits) >= 2
  /\ tag_pattern_opt.some
  /\ DOMAIN tags # {}
  /\ commits[1].time < commits[2].time
  /\ result = Ok(2, <<>>)

\* C13: in a repository without commits, a call without explicit reference,
\* glob or regex ends, after a tag listing that succeeded, with the "could not
\* find the initial commit" error and with no other error.
C13_EmptyRepositoryError ==
  (~base_ref_opt.some /\ ~PatternMatch /\ Len(commits) = 0 /\ pc = "done"
     /\ log[1].outcome = "ok") =>
    result = Err("GitCommand: no initial commit")

\* C14: when the explicit reference cannot be resolved, the error returned is
\* of the Version or the Config kind, not of the GitCommand kind that total
\* exhaustion gives.
C14_UnresolvedRefErrorKind ==
  (base_ref_opt.some /\ result.status = "err") =>
    /\ result.err \in {"Version", "Config"}
    /\ result.err # "GitCommand"

\* C15: for a base other than HEAD, get_commits_since_oid returns one entry
\* for each commit reachable from HEAD and not from the base, oldest first,
\* and each entry is the full message of its commit.
C15_CommitsSinceBaseExact ==
  (new_commits.status = "ok" /\ new_commits.head_oid # result.oid) =>
    LET listed == RevList(result.oid) IN
    new_commits.msgs = [i \in 1..Len(listed) |-> commits[listed[i]].msg]

\* C16: when the base resolved is the commit at HEAD, get_commits_since_oid
\* returns an empty list without error and without running `git log`, and
\* run_commitsense then reports bump_type none with the current version as the
\* next version and ends successfully: the suggestion client is never asked and
\* neither the version file nor CHANGELOG.md is written.
C16_NoNewCommitsAtHead ==
  (result.status = "ok" /\ new_commits.status # "none" /\ new_commits.head_oid = result.oid) =>
    /\ new_commits = CommitsOk(<<>>, result.oid, FALSE)
    /\ run_pc \in {"commits", "exit"}
    /\ run_pc = "exit" => output = Exit("ok", "none", current_version_str)
    /\ ai_suggestion = NoSuggestion
    /\ written = <<>>
    /\ version_file = current_version_str
    /\ changelog \in {NoFile, File(CHANGELOG_HEADER)}
\* A run with --write and --nightly whose base is HEAD has ended.
C16_Witness ==
  /\ run_pc = "exit"
  /\ result.status = "ok"
  /\ new_commits.status = "ok"
  /\ new_commits.head_oid = result.oid
  /\ Len(commits) = MaxCommits
  /\ argv.write
  /\ argv.nightly
  /\ output.bump_type = "none"

\* C17: the command line is rejected when it gives both --tag-pattern and
\* --tag-regex, before find_base_commit_oid is called: a run never calls the
\* resolver with tag_pattern_opt and tag_regex_opt both set.
C17_PatternAndRegexRejected ==
  /\ pc # "uncalled" => ~(tag_pattern_opt.some /\ tag_regex_opt.some)
  /\ (argv.tag_pattern.some /\ argv.tag_regex.some /\ run_pc # "parse") =>
       /\ run_pc = "exit"
       /\ output = Exit("usage", "", <<>>)
       /\ pc = "uncalled"
       /\ result = Running
\* A command line with both options has been rejected.
C17_Witness ==
  /\ argv.tag_pattern.some
  /\ argv.tag_regex.some
  /\ run_pc = "exit"
  /\ output.status = "usage"
  /\ pc = "uncalled"

\* C18: the version file and CHANGELOG.md are written only if --write is given
\* and the suggested bump is not "none" or --nightly is given; without --write
\* neither file is written or changed on any path of the run.
C18_WritesOnlyWithWriteFlag ==
  /\ written # <<>> =>
       /\ argv.write
       /\ ai_suggestion.status = "ok"
       /\ ai_suggestion.bump_type # "none" \/ argv.nightly
  /\ ~argv.write =>
       /\ written = <<>>
       /\ version_file = N100
       /\ changelog \in {NoFile, File(CHANGELOG_HEADER)}
  /\ written = <<>> =>
       /\ version_file = N100
       /\ changelog \in {NoFile, File(CHANGELOG_HEADER)}
\* A dry run has printed a patch bump and ended without writing.
C18_Witness ==
  /\ run_pc = "exit"
  /\ ~argv.write
  /\ output = Exit("ok", "patch", N101)
  /\ written = <<>>

\* C19: a successful write_changelog creates a missing CHANGELOG.md as the
\* standard header followed by the new section; in an existing file it puts the
\* new section right before the first `## [` marker (or, without a marker,
\* somewhere after the standard header the file starts with), and the
\* previous content is all there, in its order, around the new section.
C19_ChangelogSectionInserted ==
  (run_pc = "changelog" /\ written # <<>> /\ written[Len(written)].ok) =>
    LET w == written[Len(written)]
        old == w.before.content
        new == changelog.content
        inserted == w.arg \o <<"\n", "\n">>
        markers == {i \in 1..Len(old) : old[i] = VERSION_SECTION_MARKER}
        header == Len(CHANGELOG_HEADER)
    IN /\ changelog.exists
       /\ ~w.before.exists => new = CHANGELOG_HEADER \o inserted
       /\ w.before.exists =>
            \E p \in 0..Len(old) :
              /\ new = SubSeq(old, 1, p) \o inserted \o SubSeq(old, p + 1, Len(old))
              /\ \A i \in markers : p < i
              /\ markers # {} => p + 1 \in markers
              /\ (Len(old) >= header /\ SubSeq(old, 1, header) = CHANGELOG_HEADER) => p >= header
\* A section has been written into a file that had the standard header and
\* one version section.
C19_Witness ==
  /\ run_pc = "changelog"
  /\ written # <<>>
  /\ written[Len(written)].ok
  /\ written[Len(written)].before.exists
  /\ Len(written[Len(written)].before.content) > Len(CHANGELOG_HEADER)
  /\ SubSeq(written[Len(written)].before.content, 1, Len(CHANGELOG_HEADER)) = CHANGELOG_HEADER
  /\ written[Len(written)].before.content[Len(CHANGELOG_HEADER) + 1] = VERSION_SECTION_MARKER

\* C20: calculate_expected_version returns (major+1).0.0 for "major",
\* major.(minor+1).0 for "minor" and major.minor.(patch+1) for "patch", each
\* without pre-release and build metadata, and the current version as it is
\* for "none" and for every other string.
C20_ExpectedVersion ==
  (run_pc = "calculate" /\ calc.ret # NotReturned) =>
    LET current == calc.current IN
    calc.ret = Returned(
      CASE calc.bump_type = "major" -> Version(current.major + 1, 0, 0, <<>>, <<>>)
        [] calc.bump_type = "minor" -> Version(current.major, current.minor + 1, 0, <<>>, <<>>)
        [] calc.bump_type = "patch" ->
             Version(current.major, current.minor, current.patch + 1, <<>>, <<>>)
        [] OTHER -> current)

C22_ReleaseCommitBeforeSemverTag ==
  (~base_ref_opt.some /\ Len(log) >= 3) =>
    LET releases == {i \in 1..Len(commits) : GrepMatches(commits[i].msg)} IN
    /\ log[2].outcome \notin {"ok", "error"}
    /\ log[3].strategy = "release"
    /\ (log[3].outcome # "failed" /\ releases # {}) =>
         /\ Len(log) = 3
         /\ result.status = "ok"
         /\ result.oid \in releases
         /\ \A i \in releases : i <= result.oid
         /\ result.tag = <<>>
         /\ latest_semver_tag = None
    /\ Len(log) >= 4 =>
         /\ log[4].strategy = "semver"
         /\ log[3].outcome = "failed" \/ releases = {}
\* The release commit is returned although v1.0.0 is on a newer commit.
C22_Witness ==
  /\ ~base_ref_opt.some
  /\ Len(log) = 3
  /\ result.status = "ok"
  /\ V100 \in DOMAIN tags
  /\ V100 \in Range(all_tags)
  /\ tags[V100] > result.oid

\* C23: in the glob/regex strategy, when several candidates have the greatest
\* commit time, the tag chosen is the one of them that comes last in the
\* order of the tag listing.
C23_TieBreakLastListed ==
  (~base_ref_opt.some /\ PatternMatch /\ PatternValid /\ Len(log) >= 2 /\ potential_tags # <<>>) =>
    LET pushed == Candidates(log[2].skipped)
        greatest == {i \in 1..Len(pushed) : \A j \in 1..Len(pushed) : pushed[j].time <= pushed[i].time}
        last_listed == CHOOSE i \in greatest : \A j \in greatest : j <= i
    IN potential_tags[Len(potential_tags)].name = pushed[last_listed].name

\* C24: after calls of write_changelog that all succeeded, with sections
\* s1, ..., sn that each begin with `## [`, in a directory that had no
\* CHANGELOG.md, the file is the standard header followed by sn, ..., s1: every
\* call puts its section before those of the calls before it and removes none.
RECURSIVE NewestFirst(_)
NewestFirst(writes) ==
  IF writes = <<>> THEN <<>>
  ELSE writes[Len(writes)].arg \o <<"\n", "\n">>
         \o NewestFirst(SubSeq(writes, 1, Len(writes) - 1))
C24_SectionsNewestFirst ==
  (run_pc = "changelogs" /\ written # <<>> /\ \A i \in 1..Len(written) : written[i].ok) =>
    /\ \A i \in 1..Len(written) : written[i].arg[1] = VERSION_SECTION_MARKER
    /\ changelog = File(CHANGELOG_HEADER \o NewestFirst(written))
\* Two different sections have been written, one call after the other.
C24_Witness ==
  /\ run_pc = "changelogs"
  /\ Len(written) = MaxSections
  /\ \A i \in 1..Len(written) : written[i].ok
  /\ written[1].arg # written[2].arg

\* C25: format_changelog_section returns the heading `## [<version>] - <today>`
\* with the version right inside the brackets, then a blank line, then the
\* changes without the white space at their ends.
C25_SectionFormat ==
  (run_pc = "format" /\ formatted.called) =>
    formatted.ret = <<"## [">> \o formatted.version \o <<"] - today", "\n", "\n">>
                      \o TrimText(formatted.changes_markdown)

\* C26: when the tag that won the glob/regex strategy, or the semver-tag
\* strategy, does not resolve to a commit, the call returns that error at
\* once: the strategy is the last one that ran, nothing is returned from
\* another candidate, and no later strategy is tried.
C26_UnresolvedWinnerIsFatal ==
  \A i \in 1..Len(log) :
    (/\ log[i].strategy \in {"match", "semver"}
     /\ log[i].outcome = "error"
     /\ log[i].strategy = "match" => PatternValid) =>
      /\ i = Len(log)
      /\ pc = "done"
      /\ result = Err("GitCommand")
      /\ log[i].strategy = "match" => potential_tags # <<>>
      /\ log[i].strategy = "semver" => latest_semver_tag.some
\* The newest of two candidates did not resolve, and the call ended there
\* although the other candidate and a first commit exist.
C26_Witness ==
  /\ Len(log) = 2
  /\ log[2] = Entry("match", "error", {})
  /\ Len(potential_tags) >= 2
  /\ potential_tags[1].time < potential_tags[Len(potential_tags)].time
  /\ pc = "done"
  /\ result.status = "err"

\* C27: without an explicit reference, a glob that does not compile, or (with
\* no glob) a regular expression that does not compile, ends the call with
\* that error once the tags are listed: no tag is matched or looked up, and the
\* release-commit, semver-tag and initial-commit strategies do not run.
C27_InvalidPatternIsFatal ==
  (/\ ~base_ref_opt.some
   /\ IF tag_pattern_opt.some THEN ~GlobValid(tag_pattern_opt.val)
      ELSE tag_regex_opt.some /\ ~RegexValid(tag_regex_opt.val)) =>
    /\ Len(log) <= 2
    /\ \A i \in 1..Len(log) : log[i].strategy \in {"list", "match"}
    /\ potential_tags = <<>>
    /\ latest_semver_tag = None
    /\ pc = "done" => result.status = "err"
    /\ Len(log) = 2 =>
         /\ log[2] = Entry("match", "error", {})
         /\ pc = "done"
         /\ result = Err(IF tag_pattern_opt.some THEN "Glob" ELSE "Regex")
\* The regular expression did not compile: the call ended with its error in a
\* repository that has a tag the other strategies could have used and a
\* release commit.
C27_Witness ==
  /\ ~base_ref_opt.some
  /\ ~tag_pattern_opt.some
  /\ result = Err("Regex")
  /\ pc = "done"
  /\ V100 \in Range(all_tags)
  /\ ReleaseCommit # 0

\* What the tag strategies return when the tag listing comes in the order
\* `listing`, with the same lookups failing: the candidates of the glob/regex
\* strategy in that order, sorted, and the scan of the semver strategy.
CandidatesListed(listing, failed) ==
  LET keep(t) == TagMatches(t) /\ t \notin failed
      kept == SelectSeq(listing, keep)
  IN [i \in 1..Len(kept) |-> [time |-> CommitTimeOf(kept[i]), name |-> kept[i]]]
ReturnedFor(listing, strategy, failed) ==
  IF strategy = "match"
  THEN {RefTarget(Last(sorted).name) :
          sorted \in SortUnstableByKey(CandidatesListed(listing, failed))}
  ELSE {RefTarget(SemverScan(listing, failed, None).val.name)}

\* C28: for fixed tags, history and arguments, the identifier returned by a
\* tag strategy is the one that strategy returns for every order in which the
\* tag listing can come.
C28_SameForEveryListingOrder ==
  (/\ pc = "done"
   /\ result.status = "ok"
   /\ Last(log).strategy \in {"match", "semver"}) =>
    \A listing \in Perms(DOMAIN tags) :
      ReturnedFor(listing, Last(log).strategy, Last(log).skipped) = {result.oid}

\* C29: with --write the version file is written before CHANGELOG.md. Whenever
\* CHANGELOG.md has been changed (wholly, or in part by a write that failed),
\* set_version had succeeded right before and the version file holds the new
\* version, which a failure of write_changelog does not take back; when
\* set_version failed, CHANGELOG.md is as it was before the run.
C29_VersionFileBeforeChangelog ==
  LET final_version == IF argv.nightly THEN NightlyVersionString(ai_suggestion.next_version)
                       ELSE ai_suggestion.next_version
      touched == {i \in 1..Len(written) : written[i].file = "CHANGELOG.md"}
  IN /\ \A i \in touched :
          /\ i > 1
          /\ written[i - 1].file = "version"
          /\ written[i - 1].ok
          /\ written[i - 1].arg = final_version
          /\ version_file = final_version
     /\ touched = {} => changelog \in {NoFile, File(CHANGELOG_HEADER)}
     /\ (written # <<>> /\ ~written[1].ok /\ written[1].file = "version") =>
          /\ touched = {}
          /\ version_file = <<>>
\* set_version succeeded and write_changelog then failed part way: the run
\* ended with an error, the version file holds the new version.
C29_Witness ==
  /\ run_pc = "exit"
  /\ output.status = "err"
  /\ Len(written) = 2
  /\ written[2].file = "CHANGELOG.md"
  /\ ~written[2].ok
  /\ version_file = N101
  /\ changelog # written[2].before

\* C30: get_commits_since_oid returns as many entries as there are commits
\* reachable from HEAD and not from the base, whatever the messages of those
\* commits are.
C30_OneEntryPerCommit ==
  new_commits.status = "ok" => Len(new_commits.msgs) = Len(RevList(result.oid))

====
